---- MODULE Spec2Model ----
(***************************************************************************)
(* Model of the public API gateway (public_api.py) in front of the user    *)
(* service (user_service.py) and of an external listing service.           *)
(*                                                                         *)
(* One gateway request is followed from its arrival to its response; the   *)
(* upstream calls it issues settle one at a time, in any order, with any   *)
(* outcome the HTTP client can report.  The user service's table changes   *)
(* concurrently through direct creates (Spec, and FairSpec with the        *)
(* upstream calls settling).  StoreSpec drives the user service alone:     *)
(* creates, lookups by id and page reads.                                  *)
(***************************************************************************)
EXTENDS Integers, Sequences, FiniteSets, TLC

\* ---------------------------------------------------------------- bounds
MaxListings == 2
MaxUsers == 2
MaxTime == 1

\* user ids a listing may reference: every id the table can come to hold (an
\* id does not exist until its row is created)
UserIds == 1..MaxUsers

\* ------------------------------------------------------------ JSON values
Null == <<>>
Some(x) == <<x>>

\* request bodies' name values: absent, or a string (a sequence of characters)
NoName == <<"absent">>
Names == { <<>>, <<"a">>, <<" ">>, <<" ", "a">> }

RECURSIVE LStrip(_)
LStrip(s) == IF s # <<>> /\ Head(s) = " " THEN LStrip(Tail(s)) ELSE s

RECURSIVE RStrip(_)
RStrip(s) == IF s # <<>> /\ s[Len(s)] = " " THEN RStrip(SubSeq(s, 1, Len(s) - 1)) ELSE s

\* RequestHandler.get_argument(name, default): the decoded value with the
\* surrounding whitespace stripped, or the default when the argument is absent
get_argument(value) == IF value = NoName THEN NoName ELSE RStrip(LStrip(value))

\* "not x" of Python for a name: None and the empty string are falsy
Falsy(name) == name = NoName \/ name = <<>>

\* http.HTTPStatus(status_code) raises ValueError outside these values
HTTPStatusValues ==
    (100..103) \cup (200..208) \cup {226} \cup (300..305) \cup {307, 308}
    \cup (400..418) \cup (421..426) \cup {428, 429, 431, 451}
    \cup (500..508) \cup {510, 511}

Is2xx(code) == code >= 200 /\ code < 300

\* ------------------------------------------------------------- envelopes
\* a JSON object the services write: the fields it does not carry are empty
Envelope(keys, result, errors, listings, user) ==
    [keys |-> keys, result |-> result, errors |-> errors, listings |-> listings,
     user |-> user]

\* the backend's page relayed as it came, with no result field
ListingsEnvelope_Relayed(page) == Envelope({"listings"}, FALSE, <<>>, page, <<>>)

ErrorEnvelope(reason) == Envelope({"result", "errors"}, FALSE, <<reason>>, <<>>, <<>>)
ListingsEnvelope(page) == Envelope({"result", "listings"}, TRUE, <<>>, page, <<>>)
UserEnvelope(user) == Envelope({"result", "user"}, TRUE, <<>>, <<>>, <<user>>)
NoObject == Envelope({}, FALSE, <<>>, <<>>, <<>>)

\* an error string: its fixed text, the upstream body it wraps (if any) and the
\* client error's message it wraps (if any)
Message(text, wrapped, cause) == [text |-> text, wrapped |-> wrapped, cause |-> cause]

\* the error envelope is written without its fields
write_error_NoEnvelope(status_code, reason) ==
    IF status_code \notin HTTPStatusValues
    THEN [raised |-> TRUE, status |-> 0, body |-> NoObject]
    ELSE [raised |-> FALSE, status |-> status_code, body |-> NoObject]

\* BaseHandler.write_error of both services: the default of kwargs.get is
\* evaluated before the lookup, so HTTPStatus(status_code) is evaluated (and
\* may raise) even when a reason is given
write_error(status_code, reason) ==
    IF status_code \notin HTTPStatusValues
    THEN [raised |-> TRUE, status |-> 0, body |-> NoObject]
    ELSE [raised |-> FALSE, status |-> status_code, body |-> ErrorEnvelope(reason)]

write_json(obj, status_code) == [raised |-> FALSE, status |-> status_code, body |-> obj]

\* an exception that leaves the handler: the framework calls
\* write_error(500) with no reason, which writes the status phrase
Uncaught == write_error(500, Message("Internal Server Error", Null, ""))

\* --------------------------------------------------------- user service
\* a body on the wire: parseable JSON carrying obj, or bytes that are no JSON
Body(obj) == [json |-> TRUE, obj |-> obj]
Garbage == [json |-> FALSE, obj |-> NoObject]

HttpResponse(code, body) == [code |-> code, body |-> body]

\* what a service's handler wrote, as the response on the wire
Served(w) == HttpResponse(w.status, Body(w.body))

\* ids are counted from 0
lastrowid_FromZero(table) == Len(table)

\* the table 'users': rows in insertion order; id is AUTOINCREMENT and no row
\* is ever deleted, so the next id is the number of rows plus one
lastrowid(table) == Len(table) + 1

Row(id, name, time_now) ==
    [id |-> id, name |-> name, created_at |-> time_now, updated_at |-> time_now]

\* UsersHandler.post: the new table and what is written
UsersHandlerPost(table, arg, time_now) ==
    LET name == get_argument(arg) IN
    IF Falsy(name)
    THEN [table |-> table,
          out |-> write_error(400, Message("name parameter is required.", Null, ""))]
    ELSE LET user == Row(lastrowid(table), name, time_now) IN
         [table |-> Append(table, user),
          out |-> write_json(UserEnvelope(user), 201)]

\* WHERE id <= ?: the first row at or below the id is returned
UserHandlerGet_AtOrBelow(table, user_id) ==
    LET rows == { i \in 1..Len(table) : table[i].id <= user_id } IN
    IF rows # {}
    THEN write_json(UserEnvelope(table[CHOOSE i \in rows : \A k \in rows : i <= k]), 200)
    ELSE write_error(404, Message("User with id not found.", Null, ToString(user_id)))

\* the newest row is returned whatever the id
UserHandlerGet_Latest(table, user_id) ==
    IF table # <<>>
    THEN write_json(UserEnvelope(table[Len(table)]), 200)
    ELSE write_error(404, Message("User with id not found.", Null, ToString(user_id)))

\* UserHandler.get: SELECT * FROM users WHERE id=?
UserHandlerGet(table, user_id) ==
    LET rows == { i \in 1..Len(table) : table[i].id = user_id } IN
    IF rows # {}
    THEN write_json(UserEnvelope(table[CHOOSE i \in rows : TRUE]), 200)
    ELSE write_error(404, Message("User with id not found.", Null, ToString(user_id)))

\* ----------------------------------------------------------- HTTP client
\* what an upstream can do to one call: answer it (any status, any body), or
\* not answer it at all (a timeout, a refused connection)
ErrStatuses == {404, 503, 520}
ErrBody == Body(ErrorEnvelope(Message("upstream", Null, "")))

Rejections(statuses) ==
    { [ev |-> "response", response |-> HttpResponse(s, ErrBody)] : s \in statuses }

Unparseable == [ev |-> "response", response |-> HttpResponse(200, Garbage)]

TransportFaults ==
    { [ev |-> e, response |-> HttpResponse(0, Garbage)] : e \in {"timeout", "refused"} }

\* on a primary call, and on a user lookup (where the status of a rejection is
\* only logged)
Faults == Rejections(ErrStatuses) \cup {Unparseable} \cup TransportFaults
LookupFaults == Rejections({503}) \cup {Unparseable} \cup TransportFaults

Answer(response) == [ev |-> "response", response |-> response]

\* AsyncHTTPClient.fetch: the response when its status is 2xx; an
\* HTTPClientError carrying the response when it is not; an HTTPClientError
\* with code 599 and no response on a timeout; the socket's own exception on
\* a refused connection
fetch(event) ==
    IF event.ev = "response"
    THEN IF Is2xx(event.response.code)
         THEN [kind |-> "response", code |-> event.response.code, has_response |-> TRUE,
               body |-> event.response.body, message |-> ""]
         ELSE [kind |-> "HTTPClientError", code |-> event.response.code, has_response |-> TRUE,
               body |-> event.response.body, message |-> "status"]
    ELSE IF event.ev = "timeout"
    THEN [kind |-> "HTTPClientError", code |-> 599, has_response |-> FALSE,
          body |-> Garbage, message |-> "Timeout while connecting"]
    ELSE [kind |-> "Exception", code |-> 0, has_response |-> FALSE,
          body |-> Garbage, message |-> "Connection refused"]

Pending == [kind |-> "pending", code |-> 0, has_response |-> FALSE,
            body |-> Garbage, message |-> ""]

\* ------------------------------------------------------ listing service
\* a listing as the listing service returns it, and as the gateway returns it
\* (user attached, user_id deleted)
Listing(id, user_id) == [id |-> id, user_id |-> Some(user_id), user |-> Null, enriched |-> FALSE]

\* the pages the listing service can return: up to MaxListings listings, newest
\* (highest id) first, each owned by some user id
PageOf(owners) == [i \in 1..Len(owners) |-> Listing(Len(owners) + 1 - i, owners[i])]

Pages == UNION { { PageOf(o) : o \in [1..n -> UserIds] } : n \in 0..MaxListings }

\* ------------------------------------------------------------- gateway
VARIABLES
    users,           \* the user service's table
    now,             \* the user service's clock when it last handled a request
    pc,              \* where the gateway's handler is
    request,         \* the request it handles
    primary,         \* what the awaited primary fetch returned or raised
    listings,        \* PublicListingsHandler.get: the page it fetched
    user_tasks,      \* the user ids of the lookups it issued, in issue order
    user_responses,  \* their results, Pending until settled
    overtaken,       \* whether a lookup settled before one issued earlier
    calls,           \* upstream calls issued for this request, per endpoint
    finished,        \* how many times the request was finished
    response         \* the response written to the client

vars == <<users, now, pc, request, primary, listings, user_tasks, user_responses,
          overtaken, calls, finished, response>>

NoCalls == [listing_get |-> 0, listing_post |-> 0, user_get |-> 0, user_post |-> 0]
NoRequest == [handler |-> "none", kind |-> "none", name |-> NoName]
NoResponse == [raised |-> FALSE, status |-> 0, body |-> NoObject]

\* request bodies of the create endpoints: bytes that are no JSON, JSON that is
\* no object, or an object with or without a name
RequestBodies ==
    { [kind |-> k, name |-> NoName] : k \in {"invalid", "scalar"} }
    \cup { [kind |-> "object", name |-> n] : n \in Names \cup {NoName} }

\* the name plays no part in POST /public-api/listings
ListingBodies == { b \in RequestBodies : b.name \in {NoName, <<"a">>} }

Init ==
    /\ users = <<>>
    /\ now = 0
    /\ pc = "idle"
    /\ request = NoRequest
    /\ primary = Pending
    /\ listings = <<>>
    /\ user_tasks = <<>>
    /\ user_responses = <<>>
    /\ overtaken = FALSE
    /\ calls = NoCalls
    /\ finished = 0
    /\ response = NoResponse

\* no fallback: an exception that leaves the handler writes nothing
Finish_NoFallback(w) == w

\* the handler's return: what it wrote, or the framework's answer to the
\* exception that left it
Finish(w) == IF w.raised THEN Uncaught ELSE w

InternalError == write_error(500, Message("An internal server error occurred.", Null, ""))

\* a failed fetch answered like an empty result
Translate_Swallow(prefix, e) == write_json(ListingsEnvelope(<<>>), 200)

\* the except clauses that end all three handlers, for the exception e that the
\* awaited fetch raised
Translate(prefix, e) ==
    IF e.kind = "HTTPClientError"
    THEN write_error(e.code,
                     IF e.has_response
                     THEN Message(prefix, Some(e.body), "")
                     ELSE Message(prefix, Null, e.message))
    ELSE InternalError

\* a request arrives
Accept(handler, body) ==
    /\ pc = "idle"
    /\ request' = [handler |-> handler, kind |-> body.kind, name |-> body.name]
    /\ UNCHANGED <<primary, listings, user_tasks, user_responses, overtaken>>

Respond(w) ==
    /\ response' = Finish(w)
    /\ finished' = finished + 1
    /\ pc' = "done"

\* the elements of a set of integers, each once, as a list
RECURSIVE Iterate(_)
Iterate(S) ==
    IF S = {} THEN <<>>
    ELSE LET x == CHOOSE y \in S : \A z \in S : y <= z IN <<x>> \o Iterate(S \ {x})

\* ------------------------------------------- PublicListingsHandler.get
\* user_ids = {l["user_id"] for l in listings}
user_ids(page) == { page[i].user_id[1] : i \in 1..Len(page) }

\* one lookup per listing instead of one per distinct id
UserTasks_PerListing(page) == [i \in 1..Len(page) |-> page[i].user_id[1]]

\* user_tasks = [fetch(uid) for uid in user_ids]: one lookup per element of the
\* set (the results are matched to the listings by the id in the body, so the
\* set's iteration order has no effect; the model iterates in ascending order)
UserTasks(page) == Iterate(user_ids(page))

\* gather without return_exceptions: the first exception ends the wait
gather_done_FirstException(responses) ==
    \/ \A i \in DOMAIN responses : responses[i] # Pending
    \/ \E i \in DOMAIN responses : responses[i].kind \in {"HTTPClientError", "Exception"}

\* asyncio.gather(*user_tasks, return_exceptions=True) returns when every task
\* has a result or an exception
gather_done(responses) == \A i \in DOMAIN responses : responses[i] # Pending

NoUsersMap == [u \in UserIds |-> Null]

\* only the HTTP client's own error is skipped
Absorbed_OnlyHttp(res) == res.kind = "HTTPClientError"

\* the two isinstance tests of the loop: both log and continue
Absorbed(res) == res.kind = "HTTPClientError" \/ res.kind = "Exception"

\* the loop over user_responses that fills users_map; json.loads raises on a
\* body that is no JSON, and nothing in the loop catches it
RECURSIVE FoldUsers(_, _)
FoldUsers(responses, users_map) ==
    IF responses = <<>> THEN [raised |-> FALSE, users_map |-> users_map]
    ELSE LET res == Head(responses) IN
         IF Absorbed(res) THEN FoldUsers(Tail(responses), users_map)
         ELSE IF ~res.body.json THEN [raised |-> TRUE, users_map |-> users_map]
         ELSE LET user_data == res.body.obj.user IN
              IF user_data = Null THEN FoldUsers(Tail(responses), users_map)
              ELSE FoldUsers(Tail(responses),
                             [users_map EXCEPT ![user_data[1].id] = user_data])

\* the listings whose user was not resolved are left out
Merge_DropUnresolved(page, users_map) ==
    LET kept == SelectSeq(page, LAMBDA l : users_map[l.user_id[1]] # Null) IN
    [i \in 1..Len(kept) |->
        [id |-> kept[i].id, user_id |-> Null, user |-> users_map[kept[i].user_id[1]],
         enriched |-> TRUE]]

\* every listing receives the same resolved user, whoever its owner is
Merge_AnyResolved(page, users_map) ==
    LET found == { u \in UserIds : users_map[u] # Null } IN
    [i \in 1..Len(page) |->
        [id |-> page[i].id, user_id |-> Null,
         user |-> IF found = {} THEN Null ELSE users_map[CHOOSE u \in found : TRUE],
         enriched |-> TRUE]]

\* listing["user"] = users_map.get(listing["user_id"]); del listing["user_id"]
Merge(page, users_map) ==
    [i \in 1..Len(page) |->
        [id |-> page[i].id, user_id |-> Null, user |-> users_map[page[i].user_id[1]],
         enriched |-> TRUE]]

IsEmptyPage(page) == page = <<>>

\* GET /public-api/listings arrives; the handler runs to its first await
GetListings ==
    /\ Accept("get_listings", [kind |-> "none", name |-> NoName])
    /\ calls' = [NoCalls EXCEPT !.listing_get = 1]
    /\ finished' = 0
    /\ response' = NoResponse
    /\ pc' = "listing_fetch"
    /\ UNCHANGED <<users, now>>

\* the responses the listing service gives to GET /listings
ListingsBody(page) == Body(Envelope({"result", "listings"}, TRUE, <<>>, page, <<>>))
ListingAnswers == { Answer(HttpResponse(200, ListingsBody(p))) : p \in Pages }

\* the listing fetch settles; the handler runs to the gather, or to its end
ListingFetchSettles(event) ==
    /\ pc = "listing_fetch"
    /\ primary' = fetch(event)
    /\ IF primary'.kind # "response"
       THEN /\ Respond(Translate("Upstream service error: ", primary'))
            /\ UNCHANGED <<listings, user_tasks, user_responses, calls>>
       ELSE IF ~primary'.body.json
       THEN /\ Respond(InternalError)
            /\ UNCHANGED <<listings, user_tasks, user_responses, calls>>
       ELSE IF IsEmptyPage(primary'.body.obj.listings)
       THEN /\ Respond(write_json(ListingsEnvelope(<<>>), 200))
            /\ UNCHANGED <<listings, user_tasks, user_responses, calls>>
       ELSE /\ listings' = primary'.body.obj.listings
            /\ user_tasks' = UserTasks(listings')
            /\ user_responses' = [i \in DOMAIN user_tasks' |-> Pending]
            /\ calls' = [calls EXCEPT !.user_get = Len(user_tasks')]
            /\ pc' = "gather"
            /\ UNCHANGED <<finished, response>>
    /\ UNCHANGED <<users, now, request, overtaken>>

\* one user lookup settles: the user service answers it from its table, or the
\* call fails
LookupSettles(i, event) ==
    /\ pc = "gather"
    /\ i \in DOMAIN user_responses
    /\ user_responses[i] = Pending
    /\ user_responses' = [user_responses EXCEPT ![i] = fetch(event)]
    /\ overtaken' = (overtaken \/ \E j \in 1..(i - 1) : user_responses[j] = Pending)
    /\ UNCHANGED <<users, now, pc, request, primary, listings, user_tasks, calls,
                   finished, response>>

LookupAnswer(i) == Answer(Served(Finish(UserHandlerGet(users, user_tasks[i]))))

\* the gather returns; the handler folds, merges and responds
GatherReturns ==
    /\ pc = "gather"
    /\ gather_done(user_responses)
    /\ LET f == FoldUsers(user_responses, NoUsersMap) IN
       IF f.raised
       THEN Respond(InternalError)
       ELSE Respond(write_json(ListingsEnvelope(Merge(listings, f.users_map)), 200))
    /\ UNCHANGED <<users, now, request, primary, listings, user_tasks, user_responses,
                   overtaken, calls>>

\* ---------------------------------------------------- create handlers
InvalidJson == write_error(400, Message("Invalid JSON format.", Null, ""))
NameRequired == write_error(400, Message("JSON body must contain a 'name' key.", Null, ""))

\* the upstream's body is relayed under status 200 whatever its status
Relay_Always200(prefix, r) ==
    IF r.kind # "response" THEN Translate(prefix, r)
    ELSE IF ~r.body.json THEN InvalidJson
    ELSE write_json(r.body.obj, 200)

\* the tail both create handlers share: relay the upstream's status and body,
\* or translate what the fetch raised; json.loads of the upstream body raises
\* JSONDecodeError, which the first except clause catches
Relay(prefix, r) ==
    IF r.kind # "response" THEN Translate(prefix, r)
    ELSE IF ~r.body.json THEN InvalidJson
    ELSE write_json(r.body.obj, r.code)

\* PublicListingsHandler.post up to its await: json.loads, urlencode (which
\* raises TypeError on a JSON value that is no mapping or sequence of pairs)
ListingsPostParse(body) ==
    IF body.kind = "invalid" THEN [forward |-> FALSE, out |-> InvalidJson]
    ELSE IF body.kind = "scalar" THEN [forward |-> FALSE, out |-> InternalError]
    ELSE [forward |-> TRUE, out |-> NoResponse]

\* the name is forwarded unchecked
UsersPostParse_NoNameCheck(body) ==
    IF body.kind = "invalid" THEN [forward |-> FALSE, out |-> InvalidJson]
    ELSE IF body.kind = "scalar" THEN [forward |-> FALSE, out |-> InternalError]
    ELSE [forward |-> TRUE, out |-> NoResponse]

\* PublicUsersHandler.post up to its await: json.loads, body.get("name") (which
\* raises AttributeError on a JSON value that is no object), the name check
UsersPostParse(body) ==
    IF body.kind = "invalid" THEN [forward |-> FALSE, out |-> InvalidJson]
    ELSE IF body.kind = "scalar" THEN [forward |-> FALSE, out |-> InternalError]
    ELSE IF Falsy(body.name) THEN [forward |-> FALSE, out |-> NameRequired]
    ELSE [forward |-> TRUE, out |-> NoResponse]

\* a create request arrives; the handler runs to its await or to its end
Post(handler, body, parsed, waiting, issued) ==
    /\ Accept(handler, body)
    /\ IF parsed.forward
       THEN /\ calls' = issued
            /\ finished' = 0
            /\ response' = NoResponse
            /\ pc' = waiting
       ELSE /\ calls' = NoCalls
            /\ response' = Finish(parsed.out)
            /\ finished' = 1
            /\ pc' = "done"
    /\ UNCHANGED <<users, now>>

PostListings(body) ==
    Post("post_listings", body, ListingsPostParse(body), "create_listing",
         [NoCalls EXCEPT !.listing_post = 1])

PostUsers(body) ==
    Post("post_users", body, UsersPostParse(body), "create_user",
         [NoCalls EXCEPT !.user_post = 1])

\* the response the listing service gives to POST /listings
ListingCreated == Answer(HttpResponse(201, Body(Envelope({"result", "listing"}, TRUE, <<>>, <<>>, <<>>))))

ListingCreateSettles(event) ==
    /\ pc = "create_listing"
    /\ primary' = fetch(event)
    /\ Respond(Relay("Listing service error: ", primary'))
    /\ UNCHANGED <<users, now, request, listings, user_tasks, user_responses,
                   overtaken, calls>>

\* the forwarded POST /users fails before the user service handles it
UserCreateFails(event) ==
    /\ pc = "create_user"
    /\ primary' = fetch(event)
    /\ Respond(Relay("User service error: ", primary'))
    /\ UNCHANGED <<users, now, request, listings, user_tasks, user_responses,
                   overtaken, calls>>

\* the user service handles the forwarded POST /users (body name=<name>,
\* urlencoded) at time time_now, and the gateway relays what it wrote
UserCreateServed(time_now) ==
    /\ pc = "create_user"
    /\ LET r == UsersHandlerPost(users, request.name, time_now) IN
       /\ Len(r.table) <= MaxUsers
       /\ users' = r.table
       /\ primary' = fetch(Answer(Served(Finish(r.out))))
       /\ Respond(Relay("User service error: ", primary'))
    /\ now' = time_now
    /\ UNCHANGED <<request, listings, user_tasks, user_responses, overtaken, calls>>

\* the handler's coroutine is over and its locals are dropped
Close ==
    /\ pc = "done"
    /\ pc' = "idle"
    /\ request' = NoRequest
    /\ primary' = Pending
    /\ listings' = <<>>
    /\ user_tasks' = <<>>
    /\ user_responses' = <<>>
    /\ overtaken' = FALSE
    /\ calls' = NoCalls
    /\ finished' = 0
    /\ response' = NoResponse
    /\ UNCHANGED <<users, now>>

\* -------------------------------------------------------- environment
\* another client creates a user at the user service (at any moment of the
\* gateway's handler; the state "done" only marks the end of its last step)
UsersPost(arg, time_now) ==
    /\ pc # "done"
    /\ LET r == UsersHandlerPost(users, arg, time_now) IN
       /\ Len(r.table) <= MaxUsers
       /\ users' = r.table
    /\ now' = time_now
    /\ UNCHANGED <<pc, request, primary, listings, user_tasks, user_responses,
                   overtaken, calls, finished, response>>

\* time.time() at a request to the user service: the clock never runs
\* backwards, and two requests can read the same microsecond
Clock == { t \in now..(now + 1) : t <= MaxTime }

Next ==
    \/ GetListings
    \/ \E event \in ListingAnswers \cup Faults : ListingFetchSettles(event)
    \/ \E i \in 1..MaxUsers : LookupSettles(i, LookupAnswer(i))
    \/ \E i \in 1..MaxUsers, event \in LookupFaults : LookupSettles(i, event)
    \/ GatherReturns
    \/ \E body \in ListingBodies : PostListings(body)
    \/ \E body \in RequestBodies : PostUsers(body)
    \/ \E event \in Faults \cup {ListingCreated} : ListingCreateSettles(event)
    \/ \E event \in Faults : UserCreateFails(event)
    \/ \E time_now \in Clock : UserCreateServed(time_now)
    \/ Close
    \/ \E arg \in {<<"a">>, NoName}, time_now \in Clock : UsersPost(arg, time_now)

Spec == Init /\ [][Next]_vars

\* every upstream call that is in flight settles, and the coroutine that
\* awaits a settled call is resumed by the IOLoop
Settles ==
    \/ \E event \in ListingAnswers \cup Faults : ListingFetchSettles(event)
    \/ \E i \in 1..MaxUsers : LookupSettles(i, LookupAnswer(i))
    \/ \E i \in 1..MaxUsers, event \in LookupFaults : LookupSettles(i, event)
    \/ GatherReturns
    \/ \E event \in Faults \cup {ListingCreated} : ListingCreateSettles(event)
    \/ \E event \in Faults : UserCreateFails(event)
    \/ \E time_now \in Clock : UserCreateServed(time_now)

FairSpec == Spec /\ WF_vars(Settles)

\* ===================================================== user service alone
\* The user service driven directly by its own clients: creates, lookups by
\* id and page reads, each handled in one step (the handlers are synchronous)
\* and answered before the next one is taken.
StoreMaxUsers == 3
MaxPage == 2
MaxPageSize == 3

\* the defaults of get_argument("page_num", 1) and get_argument("page_size", 10)
DefaultPageNum == 1
DefaultPageSize == 10

\* {"result": True, "users": users}
UsersEnvelope(rows) ==
    [keys |-> {"result", "users"}, result |-> TRUE, errors |-> <<>>,
     listings |-> <<>>, user |-> <<>>, users |-> rows]

\* a query argument: absent, a decimal integer, or text int() rejects
Absent == [given |-> FALSE, numeric |-> FALSE, value |-> 0]
NotANumber == [given |-> TRUE, numeric |-> FALSE, value |-> 0]
Number(n) == [given |-> TRUE, numeric |-> TRUE, value |-> n]
PageArgs(max) == {Absent, NotANumber} \cup { Number(n) : n \in 0..max }

\* int(self.get_argument(name, default)): ValueError on text that is no integer
IntArgument(arg, default) ==
    IF ~arg.given THEN [raised |-> FALSE, value |-> default]
    ELSE IF ~arg.numeric THEN [raised |-> TRUE, value |-> 0]
    ELSE [raised |-> FALSE, value |-> arg.value]

\* the offset is one page short
offset_PageTimesSize(page_num, page_size) == page_num * page_size

limit(page_size) == page_size
offset(page_num, page_size) == (page_num - 1) * page_size

\* ORDER BY created_at DESC: the orders in which the statement may return the
\* rows (as positions in the table); rows of equal created_at come in any order
OrderByCreatedAtDesc(table) ==
    { f \in [1..Len(table) -> 1..Len(table)] :
        /\ \A i, j \in 1..Len(table) : i # j => f[i] # f[j]
        /\ \A i \in 1..(Len(table) - 1) :
              table[f[i]].created_at >= table[f[i + 1]].created_at }

\* LIMIT ? OFFSET ? of SQLite: a negative offset counts as 0, a negative limit
\* as no limit
LimitOffset(rows, lim, off) ==
    LET skip == IF off < 0 THEN 0 ELSE off
        last == IF lim < 0 \/ skip + lim > Len(rows) THEN Len(rows) ELSE skip + lim IN
    IF skip >= Len(rows) THEN <<>> ELSE SubSeq(rows, skip + 1, last)

\* UsersHandler.get: every response it may write
UsersHandlerGet(table, page_num_arg, page_size_arg) ==
    LET page_num == IntArgument(page_num_arg, DefaultPageNum)
        page_size == IntArgument(page_size_arg, DefaultPageSize) IN
    IF page_num.raised \/ page_size.raised
    THEN { write_error(400, Message("Invalid page_num or page_size.", Null, "")) }
    ELSE { write_json(UsersEnvelope(LimitOffset([i \in 1..Len(table) |-> table[f[i]]],
                                                limit(page_size.value),
                                                offset(page_num.value, page_size.value))),
                      200) :
           f \in OrderByCreatedAtDesc(table) }

\* the names a client of the user service may send
StoreNames == { NoName, <<>>, <<" ">>, <<"a">>, <<"b">>, <<" ", "a">> }

StoreRequest(handler, name, user_id, page_num, page_size) ==
    [handler |-> handler, kind |-> "form", name |-> name, user_id |-> user_id,
     page_num |-> page_num, page_size |-> page_size]

\* POST /users
StorePost(arg, time_now) ==
    /\ pc = "idle"
    /\ LET r == UsersHandlerPost(users, arg, time_now) IN
       /\ Len(r.table) <= StoreMaxUsers
       /\ users' = r.table
       /\ response' = Finish(r.out)
    /\ now' = time_now
    /\ request' = StoreRequest("users_post", arg, 0, Absent, Absent)
    /\ pc' = "done"
    /\ UNCHANGED <<primary, listings, user_tasks, user_responses, overtaken,
                   calls, finished>>

\* GET /users/{id}
StoreGet(user_id) ==
    /\ pc = "idle"
    /\ response' = Finish(UserHandlerGet(users, user_id))
    /\ request' = StoreRequest("user_get", NoName, user_id, Absent, Absent)
    /\ pc' = "done"
    /\ UNCHANGED <<users, now, primary, listings, user_tasks, user_responses,
                   overtaken, calls, finished>>

\* GET /users?page_num=..&page_size=..
StoreList(page_num, page_size) ==
    /\ pc = "idle"
    /\ \E w \in UsersHandlerGet(users, page_num, page_size) : response' = Finish(w)
    /\ request' = StoreRequest("users_get", NoName, 0, page_num, page_size)
    /\ pc' = "done"
    /\ UNCHANGED <<users, now, primary, listings, user_tasks, user_responses,
                   overtaken, calls, finished>>

StoreNext ==
    \/ \E arg \in StoreNames, time_now \in Clock : StorePost(arg, time_now)
    \/ \E user_id \in 1..(StoreMaxUsers + 1) : StoreGet(user_id)
    \/ \E page_num \in PageArgs(MaxPage), page_size \in PageArgs(MaxPageSize) :
          StoreList(page_num, page_size)
    \/ Close

StoreSpec == Init /\ [][StoreNext]_vars

\* ================================================================ claims
\* the request being handled is GET /public-api/listings, and its response is
\* written
GetDone == pc = "done" /\ request.handler = "get_listings"

\* the listing fetch of the request returned a 2xx response with a JSON body
FetchSucceeded ==
    request.handler = "get_listings" /\ primary.kind = "response" /\ primary.body.json

\* the page the listing service returned
BackendPage == primary.body.obj.listings

\* the position in user_tasks of the lookups issued for user id u
LookupsFor(u) == { j \in DOMAIN user_tasks : user_tasks[j] = u }

Failed(res) == res.kind = "HTTPClientError" \/ res.kind = "Exception"
Resolved(res) == res.kind = "response" /\ res.body.json /\ res.body.obj.user # Null

\* C1: once the listing fetch has succeeded with a non-empty page, the ids
\* looked up are exactly the distinct user_id values of the page, each looked up
\* once: as many lookup calls as distinct ids.
C1_LookupsAreDistinctOwners ==
    (FetchSucceeded /\ BackendPage # <<>>) =>
        LET owners == { BackendPage[i].user_id[1] : i \in DOMAIN BackendPage } IN
        /\ { user_tasks[j] : j \in DOMAIN user_tasks } = owners
        /\ \A u \in owners : Cardinality(LookupsFor(u)) = 1
        /\ calls.user_get = Cardinality(owners)
        /\ Len(user_responses) = Cardinality(owners)

\* a page of two listings of the same owner was answered after one lookup
C1_Witness ==
    /\ GetDone /\ FetchSucceeded
    /\ Len(BackendPage) = 2
    /\ BackendPage[1].user_id = BackendPage[2].user_id
    /\ calls.user_get = 1
    /\ response.status = 200

\* C2: when the listing fetch succeeded and every lookup either failed (non-2xx
\* or transport fault) or resolved its user, the response is 200 with
\* result:true and all listings of the page; a listing carries user:null exactly
\* when its owner's lookup failed, and the resolved record otherwise.
C2_PartialFailureTolerated ==
    (/\ GetDone /\ FetchSucceeded /\ BackendPage # <<>>
     /\ \A j \in DOMAIN user_responses :
            Failed(user_responses[j]) \/ Resolved(user_responses[j])) =>
        /\ response.status = 200
        /\ response.body.result = TRUE
        /\ "listings" \in response.body.keys
        /\ Len(response.body.listings) = Len(BackendPage)
        /\ \A i \in DOMAIN BackendPage :
              \A j \in LookupsFor(BackendPage[i].user_id[1]) :
                 /\ response.body.listings[i].id = BackendPage[i].id
                 /\ Failed(user_responses[j]) <=> response.body.listings[i].user = Null
                 /\ Resolved(user_responses[j]) =>
                        response.body.listings[i].user = user_responses[j].body.obj.user

\* one owner's lookup was refused, the other's resolved: the response has both
\* listings, the first with its user and the second with null
C2_Witness ==
    /\ GetDone /\ FetchSucceeded
    /\ Len(BackendPage) = 2
    /\ Len(user_responses) = 2
    /\ Resolved(user_responses[1])
    /\ user_responses[2].kind = "Exception"
    /\ response.status = 200
    /\ \E i \in 1..2 : response.body.listings[i].user = Null
    /\ \E i \in 1..2 : response.body.listings[i].user # Null

\* C3: a successful response to GET /public-api/listings lists the listings of
\* the backend's page, as many and in the same order, whatever the order in
\* which the lookups settled.
C3_OrderPreserved ==
    (GetDone /\ FetchSucceeded /\ response.status = 200) =>
        /\ Len(response.body.listings) = Len(BackendPage)
        /\ \A i \in DOMAIN BackendPage : response.body.listings[i].id = BackendPage[i].id

\* two lookups settled in the reverse of the order they were issued in, one of
\* them failing, and the response lists both listings in the page's order
C3_Witness ==
    /\ GetDone /\ FetchSucceeded /\ response.status = 200
    /\ overtaken
    /\ Len(BackendPage) = 2
    /\ \E j \in DOMAIN user_responses : Failed(user_responses[j])
    /\ response.body.listings[1].id = BackendPage[1].id
    /\ response.body.listings[1].id # response.body.listings[2].id

\* C4: an empty page is answered 200 {result:true, listings:[]} and no user
\* lookup is issued for the request.
C4_EmptyPageShortCircuit ==
    (FetchSucceeded /\ BackendPage = <<>>) =>
        /\ pc = "done"
        /\ calls.user_get = 0
        /\ user_tasks = <<>>
        /\ response.status = 200
        /\ response.body.keys = {"result", "listings"}
        /\ response.body.result = TRUE
        /\ response.body.listings = <<>>

C4_Witness ==
    /\ GetDone /\ FetchSucceeded
    /\ BackendPage = <<>>
    /\ calls.listing_get = 1
    /\ response.status = 200


\* the primary call of the request (the listing fetch, the forwarded create) was
\* answered with a non-2xx status
UpstreamRejected == primary.kind = "HTTPClientError" /\ primary.has_response

\* the primary call of the request got no HTTP response at all
TransportFault ==
    \/ primary.kind = "HTTPClientError" /\ ~primary.has_response
    \/ primary.kind = "Exception"

IsErrorEnvelope(body) ==
    body.keys = {"result", "errors"} /\ body.result = FALSE /\ Len(body.errors) = 1

\* C5: a non-2xx status s of the backend on a primary call is answered with
\* status s and {result:false, errors:[message wrapping the upstream body]}.
C5_UpstreamStatusPropagated ==
    (pc = "done" /\ UpstreamRejected) =>
        /\ response.status = primary.code
        /\ IsErrorEnvelope(response.body)
        /\ response.body.errors[1].wrapped = Some(primary.body)

\* C5, for the statuses http.HTTPStatus knows: there the status is propagated.
C5_KnownStatusPropagated ==
    (pc = "done" /\ UpstreamRejected /\ primary.code \in HTTPStatusValues) =>
        /\ response.status = primary.code
        /\ IsErrorEnvelope(response.body)
        /\ response.body.errors[1].wrapped = Some(primary.body)

\* C6: no user lookup is issued unless the listing fetch has succeeded, and a
\* failed listing fetch is answered with result:false and no listings.
C6_FetchFailureFailsRequest ==
    request.handler = "get_listings" =>
        /\ (calls.user_get > 0 \/ user_tasks # <<>>) => FetchSucceeded
        /\ pc = "listing_fetch" => calls.user_get = 0
        /\ (pc = "done" /\ primary.kind # "response") =>
              /\ calls.user_get = 0
              /\ user_tasks = <<>>
              /\ ~Is2xx(response.status)
              /\ response.body.result = FALSE
              /\ "listings" \notin response.body.keys

\* the listing service answered 503 while the user service had a user to give:
\* the request failed and no lookup was issued
C6_Witness ==
    /\ GetDone
    /\ UpstreamRejected /\ primary.code = 503
    /\ users # <<>>
    /\ calls.listing_get = 1 /\ calls.user_get = 0
    /\ response.status = 503
    /\ response.body.result = FALSE

\* C7: the response of GET /public-api/listings is written only when every
\* issued lookup has settled, and while the handler waits every pending lookup
\* can still settle, whatever the other lookups yielded.
C7_JoinBarrier ==
    request.handler = "get_listings" =>
        /\ (pc = "done" \/ response # NoResponse) =>
              \A j \in DOMAIN user_responses : user_responses[j] # Pending
        /\ \A j \in DOMAIN user_responses :
              user_responses[j] = Pending =>
                 /\ pc = "gather"
                 /\ ENABLED LookupSettles(j, LookupAnswer(j))

\* the second lookup failed first; the first one still completed and resolved
\* its user, and the response carries it
C7_Witness ==
    /\ GetDone /\ FetchSucceeded
    /\ Len(user_responses) = 2
    /\ overtaken
    /\ Failed(user_responses[2])
    /\ Resolved(user_responses[1])
    /\ response.status = 200
    /\ \E i \in DOMAIN response.body.listings : response.body.listings[i].user # Null

\* C8: once the listing fetch has succeeded with a non-empty page, the response
\* is 200 with result:true whatever the lookups yield.
C8_LookupOutcomeNeverFailsRequest ==
    (GetDone /\ FetchSucceeded /\ BackendPage # <<>>) =>
        /\ response.status = 200
        /\ response.body.result = TRUE

\* C9: a transport fault on a primary call is answered 502 with
\* {result:false, errors:[message]} and the message does not carry the cause.
C9_TransportFaultIs502 ==
    (pc = "done" /\ TransportFault) =>
        /\ response.status = 502
        /\ IsErrorEnvelope(response.body)
        /\ response.body.errors[1].cause = ""

\* C10: POST /public-api/users with a JSON object that has no name, or an empty
\* one, is answered 400 with result:false; no call to the user service is
\* issued for it, and the step that handles it leaves the table as it was.
C10_MissingNameRejectedLocally ==
    /\ [](  (/\ request.handler = "post_users"
             /\ request.kind = "object"
             /\ request.name \in {NoName, <<>>}) =>
                /\ pc = "done"
                /\ calls.user_post = 0
                /\ response.status = 400
                /\ IsErrorEnvelope(response.body))
    /\ [][ (/\ request'.handler = "post_users"
            /\ request'.kind = "object"
            /\ request'.name \in {NoName, <<>>}
            /\ pc = "idle") => users' = users ]_vars

\* a body {} was rejected while the user service held a user
C10_Witness ==
    /\ pc = "done"
    /\ request.handler = "post_users"
    /\ request.kind = "object"
    /\ request.name = NoName
    /\ users # <<>>
    /\ response.status = 400
    /\ calls.user_post = 0


\* a create request whose body is malformed: bytes that are no JSON, JSON that
\* is no object (and so has no field at all), or for POST /public-api/users an
\* object without a name
MalformedCreate ==
    /\ request.handler \in {"post_listings", "post_users"}
    /\ \/ request.kind \in {"invalid", "scalar"}
       \/ request.handler = "post_users" /\ request.name \in {NoName, <<>>}

\* C11: malformed input to a create endpoint is answered 400 with
\* {result:false, errors:[...]}, never 500, and is never forwarded upstream.
C11_MalformedInputIs400 ==
    MalformedCreate =>
        /\ pc = "done"
        /\ response.status = 400
        /\ IsErrorEnvelope(response.body)
        /\ calls.listing_post = 0 /\ calls.user_post = 0


\* the record a successful POST /public-api/users returns is the row the user
\* service holds under that id
CreateReturnsStoredRow ==
    (pc = "done" /\ request.handler = "post_users" /\ response.status = 201) =>
        /\ response.body.keys = {"result", "user"}
        /\ response.body.user # Null
        /\ response.body.user[1].id \in 1..Len(users)
        /\ users[response.body.user[1].id] = response.body.user[1]

\* in a 200 response of GET /public-api/listings, a listing whose owner's lookup
\* resolved carries the row held under its user_id, field by field
AttachedIsStoredRow ==
    (GetDone /\ FetchSucceeded /\ response.status = 200) =>
        \A i \in DOMAIN BackendPage :
            LET id == BackendPage[i].user_id[1] IN
            /\ \A j \in LookupsFor(id) :
                  Resolved(user_responses[j]) => response.body.listings[i].user # Null
            /\ response.body.listings[i].user # Null =>
                  /\ id \in 1..Len(users)
                  /\ response.body.listings[i].user = Some(users[id])

\* no step changes or removes a row
RowsImmutable ==
    \A k \in 1..Len(users) : k <= Len(users') /\ users'[k] = users[k]

\* a lookup that settles with a 2xx body carries the row held under the id it
\* asked for, and it settles with 404 only when no such row exists
LookupReadsStore ==
    \A j \in DOMAIN user_responses :
        (/\ user_responses[j] = Pending
         /\ j \in DOMAIN user_responses'
         /\ user_responses'[j] # Pending) =>
            /\ (user_responses'[j].kind = "response" /\ user_responses'[j].body.json) =>
                  /\ user_tasks[j] \in 1..Len(users)
                  /\ user_responses'[j].body.obj.user = Some(users[user_tasks[j]])
            /\ user_responses'[j].code = 404 => user_tasks[j] > Len(users)

\* C12: round trip.  The record returned by a create through the gateway is the
\* stored row; rows never change; every later lookup of that id that the user
\* service answers returns that row, and the gateway attaches it unchanged to
\* each listing of that owner, whatever other creates happened in between.
C12_RoundTrip ==
    /\ [](CreateReturnsStoredRow /\ AttachedIsStoredRow)
    /\ [][RowsImmutable /\ LookupReadsStore]_vars

\* after two creates, a listing of the first user carries the first row
C12_Witness ==
    /\ GetDone /\ FetchSucceeded /\ response.status = 200
    /\ Len(users) = 2
    /\ \E i \in DOMAIN BackendPage :
          /\ BackendPage[i].user_id = Some(1)
          /\ response.body.listings[i].user = Some(users[1])

\* a JSON object with a boolean result: true with data, or false with a
\* non-empty list of errors
IsEnvelope(body) ==
    /\ "result" \in body.keys
    /\ body.result \in BOOLEAN
    /\ body.result = TRUE => body.keys \ {"result"} # {} /\ "errors" \notin body.keys
    /\ body.result = FALSE => body.keys = {"result", "errors"} /\ Len(body.errors) >= 1

ValidCreate ==
    request.handler \in {"post_listings", "post_users"} /\ ~MalformedCreate

\* the calls a create request issued: one to its own backend, none elsewhere
OneCreateCall ==
    calls = IF request.handler = "post_listings"
            THEN [NoCalls EXCEPT !.listing_post = 1]
            ELSE [NoCalls EXCEPT !.user_post = 1]

C17_AttachedToOwnListings ==
    (GetDone /\ FetchSucceeded /\ response.status = 200) =>
        \A i \in DOMAIN BackendPage :
            LET u == BackendPage[i].user_id[1]
                attached == response.body.listings[i].user IN
            /\ \A j \in LookupsFor(u) :
                  Resolved(user_responses[j]) =>
                      /\ attached = user_responses[j].body.obj.user
                      /\ attached[1].id = u
            /\ attached # Null =>
                  /\ attached[1].id = u
                  /\ \E j \in LookupsFor(u) : attached = user_responses[j].body.obj.user

\* two listings of the second of two users both carry that user's record
C17_Witness ==
    /\ GetDone /\ FetchSucceeded /\ response.status = 200
    /\ Len(users) = 2
    /\ Len(BackendPage) = 2
    /\ \A i \in 1..2 :
          /\ BackendPage[i].user_id = Some(2)
          /\ response.body.listings[i].user # Null
          /\ response.body.listings[i].user[1].id = 2

\* the handler awaits an upstream call
InFlight == pc \in {"listing_fetch", "gather", "create_listing", "create_user"}

\* one response was written: a status and a body, put out by one finish
Answered ==
    /\ finished = 1
    /\ ~response.raised
    /\ response.status \in HTTPStatusValues
    /\ response.body # NoObject

\* C18: a request is never finished twice, is finished exactly once with a
\* written response when its handler ends, and every accepted request whose
\* upstream calls settle reaches that end.
C18_AnsweredExactlyOnce ==
    /\ [](finished <= 1)
    /\ [](InFlight => finished = 0 /\ response = NoResponse)
    /\ [](pc = "done" => Answered)
    /\ (InFlight ~> pc = "done")

\* both lookups of a request failed and the request was answered once
C18_Witness ==
    /\ GetDone /\ FetchSucceeded
    /\ Len(user_responses) = 2
    /\ \A j \in 1..2 : Failed(user_responses[j])
    /\ Answered
    /\ response.status = 200

\* a condition of the request that is neither the client's input nor an HTTP
\* failure of an upstream: a refused connection, or a 2xx answer of an upstream
\* whose body cannot be parsed
InternalCondition ==
    /\ pc = "done"
    /\ request.kind \in {"none", "object"}
    /\ \/ primary.kind = "Exception"
       \/ primary.kind = "response" /\ ~primary.body.json
       \/ \E j \in DOMAIN user_responses :
             user_responses[j].kind = "response" /\ ~user_responses[j].body.json

\* C19: an internal condition is answered 500 with the one generic message,
\* whatever its cause.
C19_InternalErrorIsGeneric500 ==
    InternalCondition =>
        /\ response.status = 500
        /\ response.body = ErrorEnvelope(Message("An internal server error occurred.", Null, ""))

\* the user service has answered a request of the given kind
StoreDone(handler) == pc = "done" /\ request.handler = handler

\* C15: GET /users/{id} answers 200 with result:true and the stored row of
\* that id when the id was created, and 404 with result:false and a "not found"
\* error when it was not; the lookup leaves the table as it was, and no row ever
\* changes after its creation.
C15_LookupByIdReturnsStoredRow ==
    /\ [](StoreDone("user_get") =>
            IF request.user_id \in 1..Len(users)
            THEN /\ response.status = 200
                 /\ response.body.keys = {"result", "user"}
                 /\ response.body.result = TRUE
                 /\ response.body.user = Some(users[request.user_id])
                 /\ response.body.user[1].id = request.user_id
            ELSE /\ response.status = 404
                 /\ IsErrorEnvelope(response.body)
                 /\ response.body.errors[1].text = "User with id not found."
                 /\ response.body.errors[1].cause = ToString(request.user_id))
    /\ [][/\ RowsImmutable
          /\ (pc = "idle" /\ pc' = "done" /\ request'.handler = "user_get") =>
                users' = users]_vars

\* the second of three users was looked up and returned
C15_Witness ==
    /\ StoreDone("user_get")
    /\ Len(users) = 3
    /\ request.user_id = 2
    /\ response.status = 200
    /\ response.body.user = Some(users[2])
    /\ users[2].name # users[3].name

\* an id that was never created was looked up
C15_NotFoundReached ==
    /\ StoreDone("user_get")
    /\ Len(users) = 2
    /\ request.user_id = 3
    /\ response.status = 404

\* the page number and size a GET /users asked for, with the defaults
PageNum == IF request.page_num.given THEN request.page_num.value ELSE DefaultPageNum
PageSize == IF request.page_size.given THEN request.page_size.value ELSE DefaultPageSize

\* GET /users was answered for integer arguments page_num >= 1, page_size >= min
ListDone(min) ==
    /\ StoreDone("users_get")
    /\ request.page_num # NotANumber /\ request.page_size # NotANumber
    /\ PageNum >= 1 /\ PageSize >= min

\* the table, newest row first
RECURSIVE Reverse(_)
Reverse(s) == IF s = <<>> THEN <<>> ELSE Append(Reverse(Tail(s)), Head(s))

\* C16 as stated: the page is the s entries at offset (p-1)*s of the users in
\* descending order of creation, the most recently created user first.
C16_NewestCreatedFirst ==
    ListDone(1) =>
        /\ response.status = 200
        /\ response.body.users =
              LimitOffset(Reverse(users), PageSize, (PageNum - 1) * PageSize)

\* C16 (amended): the page is the s entries at offset (p-1)*s of an ordering of
\* all users by created_at descending, users of equal created_at in either
\* order; the most recently created user is first on page 1 when its created_at
\* is greater than every other; with fewer than s users, page 1 holds every user
\* exactly once.
C16_PageOfCreatedAtOrder ==
    ListDone(0) =>
        LET page == response.body.users
            n == Len(users)
            off == (PageNum - 1) * PageSize
            rest == IF n > off THEN n - off ELSE 0 IN
        /\ response.status = 200
        /\ response.body.keys = {"result", "users"}
        /\ response.body.result = TRUE
        /\ Len(page) = IF rest < PageSize THEN rest ELSE PageSize
        /\ \A k \in 1..(Len(page) - 1) : page[k].created_at >= page[k + 1].created_at
        /\ \A k \in 1..Len(page) :
              /\ page[k].id \in 1..n /\ page[k] = users[page[k].id]
              /\ \A m \in 1..Len(page) : m # k => page[m].id # page[k].id
              /\ Cardinality({ i \in 1..n : users[i].created_at > page[k].created_at })
                    <= off + k - 1
              /\ Cardinality({ i \in 1..n : users[i].created_at >= page[k].created_at })
                    >= off + k
        /\ (PageNum = 1 /\ n < PageSize) =>
              { page[k].id : k \in 1..Len(page) } = 1..n /\ Len(page) = n
        /\ (PageNum = 1 /\ PageSize >= 1 /\ n >= 1
            /\ \A i \in 1..(n - 1) : users[i].created_at < users[n].created_at) =>
              page[1] = users[n]

\* the second page of size 2 of three users holds the oldest one
C16_Witness ==
    /\ ListDone(1)
    /\ Len(users) = 3
    /\ PageNum = 2 /\ PageSize = 2
    /\ users[1].created_at < users[2].created_at
    /\ response.body.users = <<users[1]>>

\* the stored users have the ids 1, 2, ... in the order of their creation
IdsCountCreates ==
    /\ \A k \in 1..Len(users) : users[k].id = k
    /\ \A i, j \in 1..Len(users) : i # j => users[i].id # users[j].id

\* C20 as stated: the ids are pairwise distinct, the k-th successful create is
\* answered 201 with id k and the submitted name, and a create with a missing or
\* empty name is answered 400.
C20_CreateReturnsSubmittedName ==
    /\ IdsCountCreates
    /\ StoreDone("users_post") =>
          /\ request.name \in {NoName, <<>>} => response.status = 400
          /\ response.status # 400 =>
                /\ response.status = 201
                /\ response.body.user[1].id = Len(users)
                /\ response.body.user[1].name = request.name

\* C20 (amended): the stored users have pairwise distinct ids; the k-th
\* successful create is answered 201 with id k and the submitted name without
\* its surrounding whitespace; a create whose name is missing, empty or only
\* whitespace is answered 400 and leaves the table unchanged; no step changes
\* or removes a row, and only a create answered 201 adds one.
C20_CreateInvariant ==
    /\ [](IdsCountCreates)
    /\ [](StoreDone("users_post") =>
            IF request.name = NoName \/ RStrip(LStrip(request.name)) = <<>>
            THEN response.status = 400 /\ IsErrorEnvelope(response.body)
            ELSE /\ response.status = 201
                 /\ response.body.keys = {"result", "user"}
                 /\ response.body.user = Some(users[Len(users)])
                 /\ response.body.user[1].id = Len(users)
                 /\ response.body.user[1].name = RStrip(LStrip(request.name))
                 /\ response.body.user[1].created_at = response.body.user[1].updated_at)
    /\ [][/\ RowsImmutable
          /\ Len(users') <= Len(users) + 1
          /\ (pc' = "done" /\ response'.status = 400) => users' = users
          /\ users' # users =>
                /\ pc = "idle" /\ pc' = "done"
                /\ request'.handler = "users_post"
                /\ response'.status = 201]_vars

\* the third create, of a name given with a leading blank
C20_Witness ==
    /\ StoreDone("users_post")
    /\ request.name = <<" ", "a">>
    /\ response.status = 201
    /\ Len(users) = 3
    /\ response.body.user[1].id = 3
    /\ response.body.user[1].name = <<"a">>

====
